---- MODULE Spec2Model ----
(***************************************************************************)
(* Model of hcloud/resource_hcloud_server_network.go: the terraform        *)
(* resource that attaches a server to a private network.                   *)
(*                                                                         *)
(* Strings are sequences of one-character strings, so that formatting and  *)
(* parsing of the "<server id>-<network id>" identifier are computed the   *)
(* way fmt.Sprintf, strings.SplitN and strconv.Atoi compute them.          *)
(* Each CRUD handler is one action; the answers of the cloud API to the    *)
(* calls a handler makes are inputs of the action, and the calls it made   *)
(* are recorded, in order, in the variable calls.                          *)
(***************************************************************************)
EXTENDS Integers, Sequences, FiniteSets, TLC

VARIABLES
    cloud,   \* the cloud: existing servers, networks, and server private nets
    d,       \* *schema.ResourceData of the one managed resource
    op,      \* the handler that has just returned, or "idle"
    diags,   \* the diag.Diagnostics (error) that handler returned
    calls,   \* the cloud API calls that handler made, in order, with answers
    invoker, \* what retry() did in that handler: used, tries, returned error
    answers, \* the answers the cloud had for that handler's mutating calls
    lookups, \* the results of that handler's lookupServerNetworkID calls
    given    \* the resource data that handler was handed, and whether
             \* d.HasChange("alias_ips") held

vars == <<cloud, d, op, diags, calls, invoker, answers, lookups, given>>

---------------------------------------------------------------------------
(* Bounds of the model *)

NumAliases == 2
MaxIDLen == 2
\* defaultMaxRetries is declared outside resource_hcloud_server_network.go;
\* the handlers only pass it to retry(), so the model is parametric in it.
\* the largest server id and network id that are encoded and decoded
MaxNum == 11
defaultMaxRetries == 3

\* the cloud has one server, which exists or not
ServerIDs == {1}
\* and two networks, each of which exists or not
NetworkIDs == {1, 2}
AliasIPs == 1..NumAliases      \* alias addresses, named by their index

---------------------------------------------------------------------------
(* Go strings *)

Digits == <<"0", "1", "2", "3", "4", "5", "6", "7", "8", "9">>

IsDigit(c) == \E i \in 1..10 : Digits[i] = c

DigitVal(c) == (CHOOSE i \in 1..10 : Digits[i] = c) - 1

RECURSIVE NatToStr(_)
NatToStr(n) ==
    IF n < 10 THEN <<Digits[n + 1]>>
    ELSE NatToStr(n \div 10) \o <<Digits[(n % 10) + 1]>>

\* fmt "%d" of an int
Itoa(n) == IF n < 0 THEN <<"-">> \o NatToStr(-n) ELSE NatToStr(n)

RECURSIVE DigitsVal(_, _)
DigitsVal(s, acc) ==
    IF s = <<>> THEN acc
    ELSE DigitsVal(Tail(s), 10 * acc + DigitVal(Head(s)))

\* strconv.Atoi: an optional sign, then one or more decimal digits
Atoi(s) ==
    LET signed == s # <<>> /\ Head(s) \in {"+", "-"}
        body   == IF signed THEN Tail(s) ELSE s
    IN  IF body = <<>> \/ \E i \in 1..Len(body) : ~IsDigit(body[i])
        THEN [ok |-> FALSE, val |-> 0]
        ELSE [ok |-> TRUE,
              val |-> IF signed /\ Head(s) = "-"
                      THEN -DigitsVal(body, 0) ELSE DigitsVal(body, 0)]

SplitFirstTwo(s) ==
    IF \E i \in 1..Len(s) : s[i] = "-"
    THEN LET k == CHOOSE i \in 1..Len(s) :
                      s[i] = "-" /\ \A j \in 1..(i - 1) : s[j] # "-"
             m == IF \E i \in (k + 1)..Len(s) : s[i] = "-"
                  THEN CHOOSE i \in (k + 1)..Len(s) :
                           s[i] = "-" /\ \A j \in (k + 1)..(i - 1) : s[j] # "-"
                  ELSE Len(s) + 1
         IN  <<SubSeq(s, 1, k - 1), SubSeq(s, k + 1, m - 1)>>
    ELSE <<s>>

\* strings.SplitN(s, "-", 2)
SplitN2(s) ==
    IF \E i \in 1..Len(s) : s[i] = "-"
    THEN LET k == CHOOSE i \in 1..Len(s) :
                      s[i] = "-" /\ \A j \in 1..(i - 1) : s[j] # "-"
         IN  <<SubSeq(s, 1, k - 1), SubSeq(s, k + 1, Len(s))>>
    ELSE <<s>>

---------------------------------------------------------------------------
(* Errors *)

NilErr == [type |-> "nil"]

APIError(code) == [type |-> "hcloud.Error", code |-> code]

ErrorCodeConflict == "conflict"
ErrorCodeLocked == "locked"
ErrorCodeNotFound == "not_found"
ErrorCodeServerAlreadyAttached == "server_already_attached"
ErrorCodeOther == "invalid_input"

IsError(err, code) == err.type = "hcloud.Error" /\ err.code = code

errInvalidServerNetworkID == [type |-> "errInvalidServerNetworkID"]

\* fmt.Errorf("<ctx>: %v", err): a new error that carries only the text
Errorf(ctx, err) == [type |-> "errorString", msg |-> ctx, of |-> err]

---------------------------------------------------------------------------
(* The cloud, as the hcloud client shows it *)

NoIP == <<>>

\* the address and MAC the cloud gives server s in network n
IPOf(s, n) == <<10, 0, n, s>>
MACOf(s, n) == <<134, 0, n, s>>

\* sequences over S without repetition
Orderings(S) ==
    UNION {{q \in [1..k -> S] : \A i, j \in 1..k : q[i] = q[j] => i = j}
           : k \in 0..Cardinality(S)}

SeqRange(q) == {q[i] : i \in 1..Len(q)}

\* hcloud.ServerPrivateNet, keyed by the server that owns it
PrivateNetOf(s, n, aliases) ==
    [server |-> s, network |-> n, ip |-> IPOf(s, n), aliases |-> aliases,
     mac |-> MACOf(s, n)]

\* the private nets a cloud with servers S and networks N may hold: for
\* each server and network none, or one with some list of aliases
Attachments(S, N) ==
    UNION {{{PrivateNetOf(p[1], p[2], f[p]) : p \in P} :
               f \in [P -> Orderings(AliasIPs)]} :
           P \in SUBSET (S \X N)}

Clouds ==
    UNION {{[servers |-> S, networks |-> N, privateNets |-> A] :
               A \in Attachments(S, N)} :
           S \in SUBSET ServerIDs, N \in SUBSET NetworkIDs}

Attached(c, s, n) ==
    \E p \in c.privateNets : p.server = s /\ p.network = n

NilServer == [nil |-> TRUE]
NilNetwork == [nil |-> TRUE]
NilPrivateNet == [nil |-> TRUE]

\* the members of a set of numbers in ascending order
RECURSIVE Ascending(_)
Ascending(S) ==
    IF S = {} THEN <<>>
    ELSE LET m == CHOOSE x \in S : \A y \in S : x <= y
         IN  <<m>> \o Ascending(S \ {m})

\* server.PrivateNet: the private nets of server s, listed by network
PrivateNetList(c, s) ==
    LET nets == Ascending({p.network : p \in {q \in c.privateNets :
                                                q.server = s}})
        of(n) == CHOOSE p \in c.privateNets :
                     p.server = s /\ p.network = n
    IN  [i \in 1..Len(nets) |->
            [nil |-> FALSE, Network |-> [ID |-> nets[i]],
             IP |-> of(nets[i]).ip, Aliases |-> of(nets[i]).aliases,
             MACAddress |-> of(nets[i]).mac]]

\* the answers a fetch may get: "ok" (the cloud's record, or nil when
\* there is none) or "error" (the request failed)
FetchAnswers == {"ok", "error"}

\* client.Server.GetByID
ServerGetByID(c, id, answer) ==
    IF answer = "error"
    THEN [server |-> NilServer, err |-> [type |-> "transport"]]
    ELSE IF id \in c.servers
    THEN [server |-> [nil |-> FALSE, ID |-> id,
                      PrivateNet |-> PrivateNetList(c, id)],
          err |-> NilErr]
    ELSE [server |-> NilServer, err |-> NilErr]

\* client.Network.GetByID
NetworkGetByID(c, id, answer) ==
    IF answer = "error"
    THEN [network |-> NilNetwork, err |-> [type |-> "transport"]]
    ELSE IF id \in c.networks
    THEN [network |-> [nil |-> FALSE, ID |-> id], err |-> NilErr]
    ELSE [network |-> NilNetwork, err |-> NilErr]

\* entries of calls: a fetch, a mutating call, the wait for an action
FetchCall(api, id, res) == [api |-> api, id |-> id, res |-> res]
MutateCall(api, server, network, res) ==
    [api |-> api, server |-> server, network |-> network, res |-> res]
WaitCall(res) == [api |-> "waitForNetworkAction", res |-> res]

FetchRes(nil, err) ==
    IF err # NilErr THEN "error" ELSE IF nil THEN "nil" ELSE "found"

---------------------------------------------------------------------------
(* generateServerNetworkID and lookupServerNetworkID *)

generateServerNetworkIDSigned(server, network) ==
    <<"+">> \o Itoa(server.ID) \o <<"-">> \o Itoa(network.ID)

generateServerNetworkID(server, network) ==
    Itoa(server.ID) \o <<"-">> \o Itoa(network.ID)

FirstPrivateNetOfAny(list, id) ==
    IF list = <<>> THEN NilPrivateNet ELSE Head(list)

\* the first private net of the list whose network is id, or nil
RECURSIVE FirstPrivateNet(_, _)
FirstPrivateNet(list, id) ==
    IF list = <<>> THEN NilPrivateNet
    ELSE IF Head(list).Network.ID = id THEN Head(list)
    ELSE FirstPrivateNet(Tail(list), id)

\* what one lookup was given, the fetches it made and what it returned
LookupResult(id, server, network, serverPrivateNet, err, made) ==
    [id |-> id, server |-> server, network |-> network,
     serverPrivateNet |-> serverPrivateNet, err |-> err, calls |-> made]

\* the one member of a singleton; The({e(x) : x \in {v}}) is e(v), with v
\* computed once
The(S) == CHOOSE x \in S : TRUE

\* srvAnswer, nwAnswer: how the two fetches are answered, if they are made
lookupServerNetworkID(terraformID, c, srvAnswer, nwAnswer) ==
    LET invalid(server, network, made) ==
            LookupResult(terraformID, server, network, NilPrivateNet,
                         errInvalidServerNetworkID, made)
    IN
    IF terraformID = <<>> THEN invalid(NilServer, NilNetwork, <<>>)
    ELSE The({
      IF Len(parts) # 2 THEN invalid(NilServer, NilNetwork, <<>>)
      ELSE The({
        IF ~serverID.ok THEN invalid(NilServer, NilNetwork, <<>>)
        ELSE The({
          LET call1 == FetchCall("Server.GetByID", serverID.val,
                                 FetchRes(sr.server.nil, sr.err))
          IN
          IF sr.err # NilErr THEN invalid(sr.server, NilNetwork, <<call1>>)
          ELSE IF sr.server.nil
          THEN invalid(sr.server, NilNetwork, <<call1>>)
          ELSE The({
            IF ~networkID.ok THEN invalid(sr.server, NilNetwork, <<call1>>)
            ELSE The({
              LET call2 == FetchCall("Network.GetByID", networkID.val,
                                     FetchRes(nr.network.nil, nr.err))
              IN
              IF nr.network.nil
              THEN invalid(sr.server, nr.network, <<call1, call2>>)
              ELSE LookupResult(terraformID, sr.server, nr.network,
                                FirstPrivateNet(sr.server.PrivateNet,
                                                nr.network.ID),
                                nr.err, <<call1, call2>>)
              : nr \in {NetworkGetByID(c, networkID.val, nwAnswer)}})
            : networkID \in {Atoi(parts[2])}})
          : sr \in {ServerGetByID(c, serverID.val, srvAnswer)}})
        : serverID \in {Atoi(parts[1])}})
      : parts \in {SplitN2(terraformID)}})

---------------------------------------------------------------------------
(* retry, abortRetry, waitForNetworkAction, merge.StringSlice,             *)
(* parseNetworkSubnetID: helpers of the provider that the handlers call    *)

abortRetry(err) ==
    IF err = NilErr THEN NilErr ELSE [type |-> "abortErr", Err |-> err]

retryFromKeepsGoing(maxTries, rs, try) ==
    IF \E i \in (try + 1)..maxTries : rs[i].type = "abortErr"
    THEN LET k == CHOOSE i \in (try + 1)..maxTries :
                      /\ rs[i].type = "abortErr"
                      /\ \A j \in (try + 1)..(i - 1) : rs[j].type # "abortErr"
         IN  [err |-> rs[k].Err, tries |-> k]
    ELSE [err |-> IF maxTries = 0 THEN NilErr ELSE rs[maxTries],
          tries |-> maxTries]

\* the loop of retry after try invocations; rs[i] is what the i-th
\* invocation of the closure returns
RECURSIVE retryFrom(_, _, _)
retryFrom(maxTries, rs, try) ==
    IF try >= maxTries
    THEN [err |-> IF try = 0 THEN NilErr ELSE rs[try], tries |-> try]
    ELSE LET err == rs[try + 1] IN
         IF err.type = "abortErr" THEN [err |-> err.Err, tries |-> try + 1]
         ELSE IF err # NilErr THEN retryFrom(maxTries, rs, try + 1)
         ELSE [err |-> NilErr, tries |-> try + 1]

\* retry(maxTries, f), rs[i] being what the i-th invocation of f returns
retry(maxTries, rs) == retryFrom(maxTries, rs, 0)

WaitAnswers == {"ok", "failed", "cancelled"}

waitForNetworkActionSwallows(answer) == NilErr

waitForNetworkAction(answer) ==
    IF answer = "ok" THEN NilErr
    ELSE IF answer = "failed" THEN [type |-> "hcloud.ActionError"]
    ELSE [type |-> "context.Canceled"]

\* the action behind an accepted call takes effect unless it fails
Applied(waitAnswer) == waitAnswer # "failed"

RECURSIVE Filter(_, _)
Filter(q, S) ==
    IF q = <<>> THEN <<>>
    ELSE (IF Head(q) \in S THEN <<Head(q)>> ELSE <<>>) \o Filter(Tail(q), S)

\* merge.StringSlice(dst, src)
StringSlice(dst, src) ==
    Filter(dst, SeqRange(src)) \o Filter(src, SeqRange(src) \ SeqRange(dst))

\* the texts net.ParseCIDR accepts
CIDRs == {<<"c">>}

errInvalidNetworkSubnetID == [type |-> "errInvalidNetworkSubnetID"]

parseNetworkSubnetIDAcceptsAll(s) == [networkID |-> 1, err |-> NilErr]

parseNetworkSubnetID(s) ==
    LET parts == SplitN2(s) IN
    IF s = <<>> \/ Len(parts) # 2 \/ ~Atoi(parts[1]).ok
       \/ parts[2] \notin CIDRs
    THEN [networkID |-> 0, err |-> errInvalidNetworkSubnetID]
    ELSE [networkID |-> Atoi(parts[1]).val, err |-> NilErr]

---------------------------------------------------------------------------
(* schema.ResourceData *)

\* no resource in the state: every attribute has its zero value
NoResource ==
    [id |-> <<>>, server_id |-> 0, network_id |-> 0, subnet_id |-> <<>>,
     ip |-> NoIP, alias_ips |-> {}, mac_address |-> <<>>]

\* d.Get("alias_ips").(*schema.Set).List(): the members in the set's own
\* order (by hash code), which the index of an alias stands for
SetList(S) == Ascending(S)

SetId(r, id) == [r EXCEPT !.id = id]

---------------------------------------------------------------------------
(* The answers of the cloud to mutating calls *)

Retryable(err) ==
    IsError(err, ErrorCodeConflict) \/ IsError(err, ErrorCodeLocked)

\* an answer is "ok" (an action is returned) or the code of an error
AnswerErr(a) == IF a = "ok" THEN NilErr ELSE APIError(a)

RetryableAnswers == {ErrorCodeConflict, ErrorCodeLocked}

\* what the cloud answers to the successive calls of one handler: it is
\* busy (Conflict, ResourceLocked) for a while and then gives a final
\* answer out of final; the last answer is repeated for later calls
Scripts(final) ==
    UNION {{q \in [1..k -> RetryableAnswers \cup final] :
               /\ \A i \in 1..(k - 1) : q[i] \in RetryableAnswers
               /\ (q[k] \in RetryableAnswers) => k = defaultMaxRetries}
           : k \in 1..defaultMaxRetries}

Answer(script, i) == script[IF i <= Len(script) THEN i ELSE Len(script)]

\* the final answers the state of the cloud allows to each mutating call
AttachFinals(c, s, n) ==
    IF s \notin c.servers \/ n \notin c.networks
    THEN {ErrorCodeNotFound, ErrorCodeOther}
    ELSE IF Attached(c, s, n)
    THEN {ErrorCodeServerAlreadyAttached, ErrorCodeOther}
    ELSE {"ok", ErrorCodeOther}

ChangeFinals(c, s, n) ==
    IF s \notin c.servers \/ n \notin c.networks
    THEN {ErrorCodeNotFound, ErrorCodeOther}
    ELSE IF Attached(c, s, n) THEN {"ok", ErrorCodeOther}
    ELSE {ErrorCodeOther}

DetachFinals(c, s, n) ==
    IF s \notin c.servers \/ n \notin c.networks
    THEN {ErrorCodeNotFound, ErrorCodeOther}
    ELSE IF Attached(c, s, n) THEN {"ok", ErrorCodeOther}
    ELSE {ErrorCodeNotFound, ErrorCodeOther}

\* the cloud after the action of an accepted call took effect
CloudAttach(c, s, n, ip, aliases) ==
    [c EXCEPT !.privateNets = @ \cup
        {[server |-> s, network |-> n,
          ip |-> IF ip = NoIP THEN IPOf(s, n) ELSE ip,
          aliases |-> aliases, mac |-> MACOf(s, n)]}]

CloudChangeAliasIPs(c, s, n, aliases) ==
    [c EXCEPT !.privateNets =
        {IF p.server = s /\ p.network = n
         THEN [p EXCEPT !.aliases = aliases] ELSE p : p \in @}]

CloudDetach(c, s, n) ==
    [c EXCEPT !.privateNets =
        {p \in @ : ~(p.server = s /\ p.network = n)}]

NoInvoker == [used |-> FALSE, tries |-> 0, err |-> NilErr]

---------------------------------------------------------------------------
(* The handlers *)

\* what a handler did: the resource data it leaves, the diagnostics it
\* returns, the calls it made, the cloud after them, what retry did, and
\* the results of its lookups
Result(r, err, made, c, inv, looked) ==
    [d |-> r, diags |-> err, calls |-> made, cloud |-> c, invoker |-> inv,
     lookups |-> looked]

setServerNetworkSchema(r, server, network, serverPrivateNet) ==
    LET aliasIPs   == SetList(r.alias_ips)
        hcAliasIPs == serverPrivateNet.Aliases
        merged     == StringSlice(aliasIPs, hcAliasIPs)
        r1 == [r EXCEPT !.id = generateServerNetworkID(server, network),
                        !.ip = serverPrivateNet.IP,
                        !.alias_ips = SeqRange(merged),
                        !.mac_address = serverPrivateNet.MACAddress]
        r2 == IF r1.subnet_id # <<>> THEN r1
              ELSE [r1 EXCEPT !.network_id = network.ID]
    IN  [r2 EXCEPT !.server_id = server.ID]

resourceServerNetworkReadKeepsUnattached(r, c, srvAnswer, nwAnswer) ==
    The({
      IF l.err = errInvalidServerNetworkID
      THEN Result(SetId(r, <<>>), NilErr, l.calls, c, NoInvoker, <<l>>)
      ELSE IF l.err # NilErr
      THEN Result(r, l.err, l.calls, c, NoInvoker, <<l>>)
      ELSE IF l.server.nil \/ l.network.nil
      THEN Result(SetId(r, <<>>), NilErr, l.calls, c, NoInvoker, <<l>>)
      ELSE IF l.serverPrivateNet.nil
      THEN Result(r, NilErr, l.calls, c, NoInvoker, <<l>>)
      ELSE Result(setServerNetworkSchema(
                      SetId(r, generateServerNetworkID(l.server, l.network)),
                      l.server, l.network, l.serverPrivateNet),
                  NilErr, l.calls, c, NoInvoker, <<l>>)
      : l \in {lookupServerNetworkID(r.id, c, srvAnswer, nwAnswer)}})

resourceServerNetworkRead(r, c, srvAnswer, nwAnswer) ==
    The({
      IF l.err = errInvalidServerNetworkID
      THEN Result(SetId(r, <<>>), NilErr, l.calls, c, NoInvoker, <<l>>)
      ELSE IF l.err # NilErr
      THEN Result(r, l.err, l.calls, c, NoInvoker, <<l>>)
      ELSE IF l.server.nil
      THEN Result(SetId(r, <<>>), NilErr, l.calls, c, NoInvoker, <<l>>)
      ELSE IF l.network.nil
      THEN Result(SetId(r, <<>>), NilErr, l.calls, c, NoInvoker, <<l>>)
      ELSE IF l.serverPrivateNet.nil
      THEN Result(SetId(r, <<>>), NilErr, l.calls, c, NoInvoker, <<l>>)
      ELSE Result(setServerNetworkSchema(
                      SetId(r, generateServerNetworkID(l.server, l.network)),
                      l.server, l.network, l.serverPrivateNet),
                  NilErr, l.calls, c, NoInvoker, <<l>>)
      : l \in {lookupServerNetworkID(r.id, c, srvAnswer, nwAnswer)}})

attachClosureRetriesAll(err) == err

attachClosureAbortsAll(err) == abortRetry(err)

\* the closure attachServerToNetwork hands to retry
attachClosure(err) ==
    IF Retryable(err) THEN err
    ELSE IF err # NilErr THEN abortRetry(err)
    ELSE NilErr

detachClosureConflictOnly(err) ==
    IF IsError(err, ErrorCodeConflict) THEN err ELSE abortRetry(err)

\* the closure resourceServerNetworkDelete hands to retry
detachClosure(err) ==
    IF Retryable(err) THEN err ELSE abortRetry(err)

attachIsDoneNever(err) == FALSE

\* attachServerToNetwork: the error of retry that means the work is done
attachIsDone(err) == IsError(err, ErrorCodeServerAlreadyAttached)

detachIsDoneNever(err) == FALSE

\* resourceServerNetworkDelete: the error of retry that means the work is
\* done
detachIsDone(err) == IsError(err, ErrorCodeNotFound)

deleteGivesUpOnMalformedOnly(l) ==
    l.err = errInvalidServerNetworkID /\ l.calls = <<>>

\* resourceServerNetworkDelete: the lookup results it takes as "gone"
deleteGivesUp(l) == l.err # NilErr

\* the calls of api that retry made, with the answers they got
RetriedCalls(api, server, network, script, tries) ==
    [i \in 1..tries |-> MutateCall(api, server, network, Answer(script, i))]

\* what retry leaves when it returns inv
Used(inv) == [used |-> TRUE, tries |-> inv.tries, err |-> inv.err]

attachServerToNetwork(c, srv, nw, ip, aliasIPs, script, waitAnswer) ==
    The({
      LET made == RetriedCalls("Server.AttachToNetwork", srv, nw, script,
                               inv.tries)
      IN
      IF attachIsDone(inv.err)
      THEN [err |-> NilErr, calls |-> made, cloud |-> c,
            invoker |-> Used(inv)]
      ELSE IF inv.err # NilErr
      THEN [err |-> Errorf("attach server to network", inv.err),
            calls |-> made, cloud |-> c, invoker |-> Used(inv)]
      ELSE LET w  == waitForNetworkAction(waitAnswer)
               c1 == IF Applied(waitAnswer)
                     THEN CloudAttach(c, srv.ID, nw.ID, ip, aliasIPs) ELSE c
               all == made \o <<WaitCall(waitAnswer)>>
           IN  IF w # NilErr
               THEN [err |-> Errorf("attach server to network", w),
                     calls |-> all, cloud |-> c1, invoker |-> Used(inv)]
               ELSE [err |-> NilErr, calls |-> all, cloud |-> c1,
                     invoker |-> Used(inv)]
      : inv \in {retry(defaultMaxRetries,
                       [i \in 1..defaultMaxRetries |->
                           attachClosure(AnswerErr(Answer(script, i)))])}})

\* r holds the configuration; its id is empty
resourceServerNetworkCreate(r, c, script, waitAnswer, srvAnswer, nwAnswer) ==
    LET nwIDSet == r.network_id # 0
        snIDSet == r.subnet_id # <<>>
    IN
    IF (nwIDSet /\ snIDSet) \/ (~nwIDSet /\ ~snIDSet)
    THEN Result(r, [type |-> "errorString",
                    msg |-> "either network_id or subnet_id must be set"],
                <<>>, c, NoInvoker, <<>>)
    ELSE The({
      IF parsed.err # NilErr
      THEN Result(r, parsed.err, <<>>, c, NoInvoker, <<>>)
      ELSE
      LET server  == [nil |-> FALSE, ID |-> r.server_id]
          network == [nil |-> FALSE, ID |-> parsed.networkID]
      IN The({
        IF a.err # NilErr
        THEN Result(r, a.err, a.calls, a.cloud, a.invoker, <<>>)
        ELSE The({
          Result(rd.d, rd.diags, a.calls \o rd.calls, a.cloud, a.invoker,
                 rd.lookups)
          : rd \in {resourceServerNetworkRead(
                        SetId(r, generateServerNetworkID(server, network)),
                        a.cloud, srvAnswer, nwAnswer)}})
        : a \in {attachServerToNetwork(c, server, network, r.ip,
                                       SetList(r.alias_ips), script,
                                       waitAnswer)}})
      : parsed \in {IF snIDSet THEN parseNetworkSubnetID(r.subnet_id)
                    ELSE [networkID |-> r.network_id, err |-> NilErr]}})

\* r holds the planned configuration; hasChange is d.HasChange("alias_ips")
\* fa, fa2: how the fetches of its lookup and of its read are answered
resourceServerNetworkUpdate(r, hasChange, c, fa, script, waitAnswer, fa2) ==
    The({
      IF l.err = errInvalidServerNetworkID
      THEN Result(SetId(r, <<>>), NilErr, l.calls, c, NoInvoker, <<l>>)
      ELSE IF l.err # NilErr
      THEN Result(r, l.err, l.calls, c, NoInvoker, <<l>>)
      ELSE IF l.server.nil
      THEN Result(SetId(r, <<>>), NilErr, l.calls, c, NoInvoker, <<l>>)
      ELSE IF l.network.nil
      THEN Result(SetId(r, <<>>), NilErr, l.calls, c, NoInvoker, <<l>>)
      ELSE
      IF hasChange
      THEN LET aliasIPs == SetList(r.alias_ips)
               err  == AnswerErr(Answer(script, 1))
               call == MutateCall("Server.ChangeAliasIPs", l.server,
                                  l.network, Answer(script, 1))
           IN
           IF err # NilErr
           THEN Result(r, err, l.calls \o <<call>>, c, NoInvoker, <<l>>)
           ELSE
           LET w    == waitForNetworkAction(waitAnswer)
               made == l.calls \o <<call, WaitCall(waitAnswer)>>
           IN The({
             IF w # NilErr THEN Result(r, w, made, c1, NoInvoker, <<l>>)
             ELSE The({
               Result(rd.d, rd.diags, made \o rd.calls, c1, NoInvoker,
                      <<l>> \o rd.lookups)
               : rd \in {resourceServerNetworkRead(r, c1, fa2[1], fa2[2])}})
             : c1 \in {IF Applied(waitAnswer)
                       THEN CloudChangeAliasIPs(c, l.server.ID, l.network.ID,
                                                aliasIPs)
                       ELSE c}})
      ELSE The({
        Result(rd.d, rd.diags, l.calls \o rd.calls, c, NoInvoker,
               <<l>> \o rd.lookups)
        : rd \in {resourceServerNetworkRead(r, c, fa2[1], fa2[2])}})
      : l \in {lookupServerNetworkID(r.id, c, fa[1], fa[2])}})

resourceServerNetworkDelete(r, c, srvAnswer, nwAnswer, script, waitAnswer) ==
    The({
      IF deleteGivesUp(l)
      THEN Result(SetId(r, <<>>), NilErr, l.calls, c, NoInvoker, <<l>>)
      ELSE The({
        LET made == l.calls \o RetriedCalls("Server.DetachFromNetwork",
                                            l.server, l.network, script,
                                            inv.tries)
        IN
        IF detachIsDone(inv.err)
        THEN Result(r, NilErr, made, c, Used(inv), <<l>>)
        ELSE IF inv.err # NilErr
        THEN Result(r, inv.err, made, c, Used(inv), <<l>>)
        ELSE
        LET w  == waitForNetworkAction(waitAnswer)
            c1 == IF Applied(waitAnswer)
                  THEN CloudDetach(c, l.server.ID, l.network.ID) ELSE c
            all == made \o <<WaitCall(waitAnswer)>>
        IN  IF w # NilErr THEN Result(r, w, all, c1, Used(inv), <<l>>)
            ELSE Result(r, NilErr, all, c1, Used(inv), <<l>>)
        : inv \in {retry(defaultMaxRetries,
                         [i \in 1..defaultMaxRetries |->
                             detachClosure(AnswerErr(Answer(script, i)))])}})
      : l \in {lookupServerNetworkID(r.id, c, srvAnswer, nwAnswer)}})

---------------------------------------------------------------------------
(* The inputs of the handlers *)

Alphabet == {"1", "-", "x"}

\* identifiers longer than MaxIDLen: of an attachment, with a part that is
\* no integer, with a second dash
SampleIDs ==
    {<<"1", "-", "1">>, <<"1", "-", "x">>, <<"1", "-", "1", "-", "1">>}

\* the identifiers terraform import may be given
ImportIDs == UNION {[1..k -> Alphabet] : k \in 1..MaxIDLen} \cup SampleIDs

SubnetInputs == {<<>>, <<"1", "-", "c">>, <<"x">>}

\* the configurations of the resource block
Configs ==
    {[NoResource EXCEPT !.server_id = s, !.network_id = n,
                        !.subnet_id = sn, !.alias_ips = a] :
        s \in ServerIDs, n \in {0} \cup NetworkIDs, sn \in SubnetInputs,
        a \in SUBSET AliasIPs}

\* how the server fetch and the network fetch of one lookup are answered
FetchPairs == {<<"ok", "ok">>, <<"ok", "error">>, <<"error", "ok">>}

MutatingAPIs ==
    {"Server.AttachToNetwork", "Server.ChangeAliasIPs",
     "Server.DetachFromNetwork"}

Mutations(made) ==
    {i \in 1..Len(made) : made[i].api \in MutatingAPIs}

Waits(made) ==
    {i \in 1..Len(made) : made[i].api = "waitForNetworkAction"}

\* an answer the handler never asks for
Unasked == <<ErrorCodeOther>>

Last(q) == q[Len(q)]

WaitInputs(script) == IF Last(script) = "ok" THEN WaitAnswers ELSE {"ok"}

\* the state terraform keeps of a resource whose handler left the id empty
Saved(r) == IF r.id = <<>> THEN NoResource ELSE r

\* no handler is running
NoArgs == [d |-> NoResource, hasChange |-> FALSE]

Finish(name, r, hasChange, res, script, saved) ==
    /\ op' = name
    /\ given' = [d |-> r, hasChange |-> hasChange]
    /\ d' = saved
    /\ cloud' = res.cloud
    /\ diags' = res.diags
    /\ calls' = res.calls
    /\ invoker' = res.invoker
    /\ answers' = IF Mutations(res.calls) = {} THEN <<>> ELSE script
    /\ lookups' = res.lookups

---------------------------------------------------------------------------
(* The state machine *)

Init ==
    /\ cloud \in Clouds
    /\ d = NoResource
    /\ op = "idle"
    /\ diags = NilErr
    /\ calls = <<>>
    /\ invoker = NoInvoker
    /\ answers = <<>>
    /\ lookups = <<>>
    /\ given = NoArgs

\* the fetches of the read that ends create and update are answered only
\* when the handler gets that far
ReadInputs(reached) == IF reached THEN FetchPairs ELSE {<<"ok", "ok">>}

\* the network a configuration names, 0 if none
ConfigNetwork(cfg) ==
    IF cfg.subnet_id # <<>>
    THEN parseNetworkSubnetID(cfg.subnet_id).networkID
    ELSE cfg.network_id

\* the answers the cloud may give to the attach call of create; a
\* configuration that create rejects is asked nothing
CreateScripts(cfg) ==
    IF resourceServerNetworkCreate(cfg, cloud, Unasked, "ok", "ok",
                                   "ok").calls # <<>>
    THEN Scripts(AttachFinals(cloud, cfg.server_id, ConfigNetwork(cfg)))
    ELSE {Unasked}

\* terraform apply of a new resource block
Create ==
    /\ op = "idle"
    /\ d = NoResource
    /\ \E cfg \in Configs :
         \E script \in CreateScripts(cfg) :
           \E waitAnswer \in WaitInputs(script) :
             \E fa \in ReadInputs(
                          \/ Last(script) = "ok" /\ waitAnswer = "ok"
                          \/ Last(script) = ErrorCodeServerAlreadyAttached) :
               \E res \in {resourceServerNetworkCreate(
                               cfg, cloud, script, waitAnswer, fa[1], fa[2])} :
                 Finish("create", cfg, FALSE, res, script, Saved(res.d))

\* terraform import: schema.ImportStatePassthroughContext
Import ==
    /\ op = "idle"
    /\ d = NoResource
    /\ \E id \in ImportIDs : d' = SetId(NoResource, id)
    /\ UNCHANGED <<cloud, op, diags, calls, invoker, answers, lookups, given>>

\* terraform refresh
Read ==
    /\ op = "idle"
    /\ d.id # <<>>
    /\ \E fa \in FetchPairs :
         \E res \in {resourceServerNetworkRead(d, cloud, fa[1], fa[2])} :
           Finish("read", d, FALSE, res, Unasked, Saved(res.d))

\* the answers the cloud may give to the call of update, whose lookup
\* returned l; without a change, a server and a network it is asked nothing;
\* update calls once: of the cloud's answers, the first and the one a second
\* call would get are kept
ChangeScripts(l, hasChange) ==
    IF hasChange /\ ~l.server.nil /\ ~l.network.nil
    THEN {SubSeq(q, 1, IF Len(q) < 2 THEN Len(q) ELSE 2) :
             q \in Scripts(ChangeFinals(cloud, l.server.ID, l.network.ID))}
    ELSE {Unasked}

\* the answers the cloud may give to the calls of delete, whose lookup
\* returned l; without a server and a network it is asked nothing
DetachScripts(l) ==
    IF ~l.server.nil /\ ~l.network.nil
    THEN Scripts(DetachFinals(cloud, l.server.ID, l.network.ID))
    ELSE {Unasked}

\* terraform apply of a changed alias_ips
Update ==
    /\ op = "idle"
    /\ d.id # <<>>
    /\ \E aliases \in SUBSET AliasIPs, fa \in FetchPairs :
         \E l \in {lookupServerNetworkID(d.id, cloud, fa[1], fa[2])},
            hasChange \in {aliases # d.alias_ips} :
           \E script \in ChangeScripts(l, hasChange) :
             \E waitAnswer \in WaitInputs(<<script[1]>>) :
               \E fa2 \in ReadInputs(
                             \/ l.err = NilErr /\ ~hasChange
                             \/ script[1] = "ok" /\ waitAnswer = "ok") :
                 \E res \in {resourceServerNetworkUpdate(
                                 [d EXCEPT !.alias_ips = aliases], hasChange,
                                 cloud, fa, script, waitAnswer, fa2)} :
                   Finish("update", [d EXCEPT !.alias_ips = aliases],
                          hasChange, res, script, Saved(res.d))

\* terraform destroy
Delete ==
    /\ op = "idle"
    /\ d.id # <<>>
    /\ \E fa \in FetchPairs :
         \E l \in {lookupServerNetworkID(d.id, cloud, fa[1], fa[2])} :
           \E script \in DetachScripts(l) :
             \E waitAnswer \in WaitInputs(script) :
               \E res \in {resourceServerNetworkDelete(
                               d, cloud, fa[1], fa[2], script, waitAnswer)} :
                 Finish("delete", d, FALSE, res, script,
                        IF res.diags = NilErr THEN NoResource
                        ELSE Saved(res.d))

\* the clouds one change away from c: a server or a network is created or
\* deleted (with its private nets), a server is attached or detached, or
\* the aliases of a private net change
Neighbours(c) ==
    {[c EXCEPT !.servers = @ \cup {s}] : s \in ServerIDs \ c.servers}
    \cup {[c EXCEPT !.servers = @ \ {s},
                    !.privateNets = {p \in @ : p.server # s}] :
             s \in c.servers}
    \cup {[c EXCEPT !.networks = @ \cup {n}] : n \in NetworkIDs \ c.networks}
    \cup {[c EXCEPT !.networks = @ \ {n},
                    !.privateNets = {p \in @ : p.network # n}] :
             n \in c.networks}
    \cup {CloudAttach(c, pr[1], pr[2], NoIP, a) :
             pr \in {q \in c.servers \X c.networks :
                        ~Attached(c, q[1], q[2])},
             a \in Orderings(AliasIPs)}
    \cup {CloudDetach(c, p.server, p.network) : p \in c.privateNets}
    \cup UNION {{CloudChangeAliasIPs(c, p.server, p.network, a) :
                    a \in Orderings(AliasIPs) \ {p.aliases}} :
                p \in c.privateNets}

\* servers, networks and attachments change outside of terraform
CloudChange ==
    /\ op = "idle"
    /\ \E c \in Neighbours(cloud) : cloud' = c
    /\ UNCHANGED <<d, op, diags, calls, invoker, answers, lookups, given>>

\* the handler has returned; terraform is ready for the next operation
Return ==
    /\ op # "idle"
    /\ op' = "idle"
    /\ diags' = NilErr
    /\ calls' = <<>>
    /\ invoker' = NoInvoker
    /\ answers' = <<>>
    /\ lookups' = <<>>
    /\ given' = NoArgs
    /\ UNCHANGED <<cloud, d>>

Next ==
    Create \/ Import \/ Read \/ Update \/ Delete \/ CloudChange \/ Return

Spec == Init /\ [][Next]_vars

\* the operations of terraform on a resource it created itself
NextManaged == Create \/ Read \/ Update \/ Delete \/ CloudChange \/ Return

SpecManaged == Init /\ [][NextManaged]_vars

\* the identifiers generateServerNetworkID makes of ids up to MaxNum, and
\* the identifiers of terraform import
CodecIDs ==
    {generateServerNetworkID([ID |-> s], [ID |-> n]) :
        s \in 0..MaxNum, n \in 0..MaxNum} \cup ImportIDs

\* a record with any of these identifiers
InitCodec ==
    /\ cloud \in Clouds
    /\ d \in {SetId(NoResource, id) : id \in CodecIDs}
    /\ op = "idle"
    /\ diags = NilErr
    /\ calls = <<>>
    /\ invoker = NoInvoker
    /\ answers = <<>>
    /\ lookups = <<>>
    /\ given = NoArgs

\* lookupServerNetworkID is applied to it by read
NextCodec == Read \/ Return

SpecCodec == InitCodec /\ [][NextCodec]_vars

---------------------------------------------------------------------------
(* Properties *)

Attaches == {i \in 1..Len(calls) : calls[i].api = "Server.AttachToNetwork"}
Changes  == {i \in 1..Len(calls) : calls[i].api = "Server.ChangeAliasIPs"}
Detaches == {i \in 1..Len(calls) : calls[i].api = "Server.DetachFromNetwork"}

\* the answer is an error that is neither Conflict nor ResourceLocked
Fatal(a) == a # "ok" /\ a \notin RetryableAnswers

\* the cloud is busy for fewer calls than retry makes, then accepts
BusyThenAccepts(script) ==
    /\ script # <<>>
    /\ Last(script) = "ok"
    /\ \A i \in 1..(Len(script) - 1) : script[i] \in RetryableAnswers

\* the identifier has the form <int>-<int>
WellFormed(id) ==
    /\ Len(SplitN2(id)) = 2
    /\ Atoi(SplitN2(id)[1]).ok
    /\ Atoi(SplitN2(id)[2]).ok

DecodedNetwork(id) == Atoi(SplitN2(id)[2]).val

\* what the fetches of lookup l found: "found", "nil", "error", or "none"
\* when the fetch was not made
ServerFetch(l) == IF Len(l.calls) >= 1 THEN l.calls[1].res ELSE "none"
NetworkFetch(l) == IF Len(l.calls) >= 2 THEN l.calls[2].res ELSE "none"

BothFound(l) ==
    WellFormed(l.id) /\ ServerFetch(l) = "found" /\ NetworkFetch(l) = "found"

\* the fetched server lists a private net in the network the id names
HasEntry(l) ==
    \E j \in 1..Len(l.server.PrivateNet) :
        l.server.PrivateNet[j].Network.ID = DecodedNetwork(l.id)

MembershipGone(l) == BothFound(l) /\ ~HasEntry(l)

\* malformed id, server lookup error, server absent, network absent
ResolveFails(l) ==
    \/ ~WellFormed(l.id)
    \/ ServerFetch(l) \in {"nil", "error"}
    \/ NetworkFetch(l) \in {"nil", "error"}

\* C1: when the cloud answers the change-alias-IPs call of update with
\* Conflict or ResourceLocked fewer times than the retry bound and then
\* accepts it, update repeats the call until it is accepted and does not
\* return the Conflict/ResourceLocked error.
C1_UpdateRetriesBusy ==
    (op = "update" /\ Changes # {} /\ BusyThenAccepts(answers)) =>
        /\ Cardinality(Changes) = Len(answers)
        /\ ~Retryable(diags)

\* C2: when the lookup of update yields InvalidIdentifier, server gone,
\* network gone or membership gone, update clears the id, returns no error
\* and issues no change-alias-IPs call.
C2_UpdateDropsGone ==
    (op = "update" /\ (ResolveFails(lookups[1]) \/ MembershipGone(lookups[1])))
        => (d.id = <<>> /\ diags = NilErr /\ Changes = {})

\* C3: in attach and detach, a call that fails with an error other than
\* Conflict and ResourceLocked is the last invocation of the call and its
\* error is what retry returns; when the first call fails so, the call is
\* invoked exactly once.
C3_FatalErrorAborts ==
    (op \in {"create", "delete"} /\ invoker.used) =>
        /\ \A i \in Mutations(calls) :
               Fatal(calls[i].res) =>
                   /\ invoker.err = APIError(calls[i].res)
                   /\ \A j \in Mutations(calls) : j <= i
        /\ Fatal(answers[1]) =>
               /\ Cardinality(Mutations(calls)) = 1
               /\ invoker.tries = 1
               /\ invoker.err = APIError(answers[1])

C3_Witness ==
    /\ op = "create"
    /\ invoker.used
    /\ answers = <<ErrorCodeNotFound>>
    /\ Cardinality(Attaches) = 1
    /\ invoker.err = APIError(ErrorCodeNotFound)

\* C4: in attach and detach, when the call fails with Conflict or
\* ResourceLocked k times, k below the maximum number of tries, and then
\* succeeds, the call is invoked exactly k+1 times and retry returns no
\* error.
C4_BusyThenSuccess ==
    (op \in {"create", "delete"} /\ invoker.used /\ BusyThenAccepts(answers))
        => /\ Cardinality(Mutations(calls)) = Len(answers)
           /\ invoker.tries = Len(answers)
           /\ invoker.err = NilErr

C4_Witness ==
    /\ op = "delete"
    /\ answers = <<ErrorCodeConflict, ErrorCodeConflict, "ok">>
    /\ Cardinality(Detaches) = 3
    /\ invoker.err = NilErr

\* C5: in attach and detach the call is never invoked more than
\* defaultMaxRetries times; when every try fails with Conflict or
\* ResourceLocked it is invoked exactly defaultMaxRetries times, retry
\* returns the last error, and the handler returns it as an error without
\* waiting for an action.
C5_Exhaustion ==
    (op \in {"create", "delete"} /\ invoker.used) =>
        /\ Cardinality(Mutations(calls)) <= defaultMaxRetries
        /\ (\A i \in 1..Len(answers) : answers[i] \in RetryableAnswers) =>
               /\ Cardinality(Mutations(calls)) = defaultMaxRetries
               /\ invoker.tries = defaultMaxRetries
               /\ invoker.err = APIError(Last(answers))
               /\ Waits(calls) = {}
               /\ diags = IF op = "create"
                          THEN Errorf("attach server to network", invoker.err)
                          ELSE invoker.err

C5_Witness ==
    /\ op = "create"
    /\ invoker.used
    /\ Cardinality(Attaches) = defaultMaxRetries
    /\ \A i \in Attaches : calls[i].res \in RetryableAnswers
    /\ invoker.err = APIError(ErrorCodeLocked)
    /\ diags # NilErr

\* C6: when the cloud answers the attach call with AlreadyAttached, that
\* call is the last attach call, attach returns no error and waits for no
\* action, and create goes on to read.
C6_AttachIdempotent ==
    (op = "create" /\
     \E i \in Attaches : calls[i].res = ErrorCodeServerAlreadyAttached) =>
        /\ \A i \in Attaches :
               calls[i].res = ErrorCodeServerAlreadyAttached =>
                   \A j \in Attaches : j <= i
        /\ Waits(calls) = {}
        /\ diags = NilErr
        /\ Len(lookups) = 1

C6_Witness ==
    /\ op = "create"
    /\ answers = <<ErrorCodeServerAlreadyAttached>>
    /\ Cardinality(Attaches) = 1
    /\ diags = NilErr
    /\ d.id # <<>>

\* C7: when the cloud answers the detach call with NotFound, delete
\* returns no error and waits for no action, and that call is the last
\* detach call; when the first answer is NotFound the call is invoked
\* exactly once.
C7_DetachIdempotent ==
    (op = "delete" /\ \E i \in Detaches : calls[i].res = ErrorCodeNotFound) =>
        /\ diags = NilErr
        /\ Waits(calls) = {}
        /\ \A i \in Detaches :
               calls[i].res = ErrorCodeNotFound => \A j \in Detaches : j <= i
        /\ answers[1] = ErrorCodeNotFound => Cardinality(Detaches) = 1

C7_Witness ==
    /\ op = "delete"
    /\ answers = <<ErrorCodeNotFound>>
    /\ Cardinality(Detaches) = 1
    /\ diags = NilErr

\* C8: when the lookup of delete fails (malformed id, server lookup error,
\* server absent, network absent), delete returns no error, clears the id
\* and issues no detach call; every detach call is given a non-nil server
\* and a non-nil network.
C8_DeleteUnresolvable ==
    (op = "delete") =>
        /\ ResolveFails(lookups[1]) =>
               (diags = NilErr /\ d.id = <<>> /\ Mutations(calls) = {})
        /\ \A i \in Mutations(calls) :
               /\ calls[i].api = "Server.DetachFromNetwork"
               /\ ~calls[i].server.nil
               /\ ~calls[i].network.nil

C8_Witness ==
    /\ op = "delete"
    /\ WellFormed(lookups[1].id)
    /\ ServerFetch(lookups[1]) = "found"
    /\ NetworkFetch(lookups[1]) = "nil"
    /\ d.id = <<>>
    /\ diags = NilErr
    /\ Detaches = {}

\* C9: for a well-formed id, lookup returns InvalidIdentifier when the
\* server is absent or its fetch fails, and when the server is present and
\* the network absent; with both present and no private net of the server
\* in that network it returns (server, network, nil, nil); a private net is
\* returned only if its network is the network the id names.
C9_LookupAbsence ==
    \A i \in 1..Len(lookups) :
        LET l == lookups[i] IN
        /\ WellFormed(l.id) =>
              /\ ServerFetch(l) \in {"nil", "error"} =>
                     l.err = errInvalidServerNetworkID
              /\ (ServerFetch(l) = "found" /\ NetworkFetch(l) # "found") =>
                     l.err = errInvalidServerNetworkID
              /\ MembershipGone(l) =>
                     /\ l.err = NilErr
                     /\ ~l.server.nil
                     /\ ~l.network.nil
                     /\ l.serverPrivateNet.nil
        /\ ~l.serverPrivateNet.nil =>
              /\ BothFound(l)
              /\ l.serverPrivateNet.Network.ID = DecodedNetwork(l.id)

C9_Witness ==
    \E i \in 1..Len(lookups) :
        /\ MembershipGone(lookups[i])
        /\ lookups[i].server.PrivateNet # <<>>
        /\ lookups[i].serverPrivateNet.nil
        /\ lookups[i].err = NilErr

\* C10: read makes no mutating call and returns no error; it clears the id
\* for InvalidIdentifier, server gone, network gone and membership gone,
\* and leaves a non-empty id only when server, network and a private net of
\* the server in that network were all found.
C10_ReadDropsGone ==
    (op = "read") =>
        /\ Mutations(calls) = {}
        /\ Waits(calls) = {}
        /\ diags = NilErr
        /\ (ResolveFails(lookups[1]) \/ MembershipGone(lookups[1])) =>
               d.id = <<>>
        /\ d.id # <<>> => (BothFound(lookups[1]) /\ HasEntry(lookups[1]))

C10_Witness ==
    /\ op = "read"
    /\ MembershipGone(lookups[1])
    /\ d.id = <<>>
    /\ diags = NilErr

\* the text is not <int>-<cidr>
Undecodable(sn) ==
    ~(/\ Len(SplitN2(sn)) = 2
      /\ Atoi(SplitN2(sn)[1]).ok
      /\ SplitN2(sn)[2] \in CIDRs)

\* network_id and subnet_id both set, both unset, or a subnet_id that
\* cannot be decoded
InvalidConfig(cfg) ==
    \/ cfg.network_id # 0 /\ cfg.subnet_id # <<>>
    \/ cfg.network_id = 0 /\ cfg.subnet_id = <<>>
    \/ cfg.subnet_id # <<>> /\ Undecodable(cfg.subnet_id)

\* C11: when network_id and subnet_id are both set or both unset, or the
\* subnet_id cannot be decoded, create returns an error, leaves the id
\* empty and makes no cloud API call.
C11_CreateValidates ==
    (op = "create" /\ InvalidConfig(given.d)) =>
        (diags # NilErr /\ d.id = <<>> /\ calls = <<>>)

C11_Witness ==
    /\ op = "create"
    /\ given.d.network_id = 0
    /\ given.d.subnet_id = <<"x">>
    /\ diags = errInvalidNetworkSubnetID
    /\ calls = <<>>
    /\ d.id = <<>>

\* the network of the record: decoded from subnet_id if set, else network_id
ResolvedNetwork(r) ==
    IF r.subnet_id # <<>> THEN Atoi(SplitN2(r.subnet_id)[1]).val
    ELSE r.network_id

\* the id of the record is "<server_id>-<network id>"
ExternalIDHolds ==
    d.id # <<>> =>
        d.id = NatToStr(d.server_id) \o <<"-">> \o NatToStr(ResolvedNetwork(d))

\* C12: after any sequence of create, read and update, a non-empty id is
\* "<server_id>-<network id>" for the server and the resolved network of
\* the record, and read and update never change a well-formed id to another
\* non-empty value.
C12_ExternalID ==
    [][/\ ExternalIDHolds'
       /\ (op' \in {"read", "update"} /\ WellFormed(d.id) /\ d'.id # <<>>)
              => d'.id = d.id]_vars

C12_Witness ==
    /\ op = "read"
    /\ given.d.id = <<"1", "-", "2">>
    /\ d.id = <<"1", "-", "2">>
    /\ d.server_id = 1
    /\ d.network_id = 2

\* the waits of the handler that did not end well
FailedWaits == {i \in Waits(calls) : calls[i].res # "ok"}

\* C13: in create, update and delete, when the mutating call was accepted
\* and the wait for its action returns an error (the action failed, the
\* wait was cancelled), the handler returns an error; create then leaves
\* the id empty.
C13_ActionFailureSurfaced ==
    (op \in {"create", "update", "delete"} /\ FailedWaits # {}) =>
        /\ diags # NilErr
        /\ op = "create" => d.id = <<>>

C13_Witness ==
    /\ op = "update"
    /\ Cardinality(Changes) = 1
    /\ \E i \in Waits(calls) : calls[i].res = "failed"
    /\ diags = [type |-> "hcloud.ActionError"]

\* the mutating calls of the handler that the cloud accepted
Accepted == {i \in Mutations(calls) : calls[i].res = "ok"}

\* C14: operations on other attachments of the network run at the same
\* time and the cloud, which serializes them, rejects the calls of this
\* handler with Conflict or ResourceLocked while they hold the network;
\* when the network is released within the retry bound, the handler
\* (create, update or delete) repeats its call until it is accepted and
\* does not fail with the Conflict/ResourceLocked error.
C14_RacesAbsorbed ==
    (/\ op \in {"create", "update", "delete"}
     /\ Mutations(calls) # {}
     /\ BusyThenAccepts(answers)) =>
        (Accepted # {} /\ ~Retryable(diags))

\* the handler ran read as far as setServerNetworkSchema: the lookup of
\* read found server, network and private net
ReadStored ==
    /\ op \in {"create", "read", "update"}
    /\ Len(lookups) = (IF op = "update" THEN 2 ELSE 1)
    /\ ~Last(lookups).serverPrivateNet.nil

\* the elements of L that occur in C, in the order of L, then the elements
\* of C that do not occur in L, in the order of C
Merged(L, C) ==
    Filter(L, SeqRange(C)) \o Filter(C, SeqRange(C) \ SeqRange(L))

\* C15: read stores as alias_ips the elements of the local list L that
\* occur in the list C the cloud reports, in the order of L, followed by the
\* elements of C that do not occur in L, in the order of C; the stored list
\* has the members of C.
C15_AliasMerge ==
    ReadStored =>
        /\ SetList(d.alias_ips) =
               Merged(SetList(given.d.alias_ips),
                      Last(lookups).serverPrivateNet.Aliases)
        /\ d.alias_ips = SeqRange(Last(lookups).serverPrivateNet.Aliases)

\* x comes before y in q
Precedes(q, x, y) ==
    \E i, j \in 1..Len(q) : i < j /\ q[i] = x /\ q[j] = y

\* C16: a second read after a successful read, the cloud unchanged, leaves
\* the id and alias_ips as the first read left them; and a read keeps the
\* aliases that were stored before and still exist in their earlier
\* relative order and places the aliases the cloud added after them.
C16_ReadStable ==
    (op = "read" /\ ReadStored) =>
        /\ \A res \in {resourceServerNetworkRead(d, cloud, "ok", "ok")} :
               /\ res.d.id = d.id
               /\ res.d.alias_ips = d.alias_ips
        /\ \A x, y \in given.d.alias_ips \cap d.alias_ips :
               Precedes(SetList(given.d.alias_ips), x, y) =>
                   Precedes(SetList(d.alias_ips), x, y)
        /\ \A x \in given.d.alias_ips \cap d.alias_ips :
               \A y \in d.alias_ips \ given.d.alias_ips :
                   Precedes(SetList(d.alias_ips), x, y)

Dashes(id) == {i \in 1..Len(id) : id[i] = "-"}

FirstDash(id) == CHOOSE k \in Dashes(id) : \A j \in Dashes(id) : k <= j

\* empty, without a dash, or with a part before or after the first dash
\* that is no integer
Malformed(id) ==
    \/ id = <<>>
    \/ Dashes(id) = {}
    \/ ~Atoi(SubSeq(id, 1, FirstDash(id) - 1)).ok
    \/ ~Atoi(SubSeq(id, FirstDash(id) + 1, Len(id))).ok

\* C17: the identifier generateServerNetworkID makes of a server id s >= 0
\* and a network id n >= 0 is decoded by lookupServerNetworkID to s and n
\* (the ids it fetches); the empty string, a string without a dash, a string
\* with a part that is no integer, and a string like "12-34-56", split at
\* its first dash only, are rejected with errInvalidServerNetworkID.
C17_RoundTrip ==
    /\ lookupServerNetworkID(<<>>, cloud, "ok", "ok").err
           = errInvalidServerNetworkID
    /\ \A i \in 1..Len(lookups) :
           LET l == lookups[i] IN
           /\ \A s, n \in 0..MaxNum :
                  l.id = NatToStr(s) \o <<"-">> \o NatToStr(n) =>
                      /\ l.calls # <<>>
                      /\ l.calls[1].id = s
                      /\ Len(l.calls) >= 2 => l.calls[2].id = n
                      /\ Atoi(SplitN2(l.id)[1]) = [ok |-> TRUE, val |-> s]
                      /\ Atoi(SplitN2(l.id)[2]) = [ok |-> TRUE, val |-> n]
           /\ Malformed(l.id) =>
                  l.err = errInvalidServerNetworkID

C17_Witness ==
    /\ op = "read"
    /\ lookups[1].id = <<"1", "-", "1", "-", "1">>
    /\ ServerFetch(lookups[1]) = "found"
    /\ lookups[1].err = errInvalidServerNetworkID
    /\ d.id = <<>>

\* C18: for a malformed identifier (empty, without a dash, or with a part
\* that is no integer) lookupServerNetworkID returns
\* errInvalidServerNetworkID without having made a cloud API call: it fetches
\* the server or the network only after both parts were parsed.
C18_DecodeBeforeCalls ==
    \A i \in 1..Len(lookups) :
        Malformed(lookups[i].id) =>
            /\ lookups[i].err = errInvalidServerNetworkID
            /\ lookups[i].calls = <<>>

\* C19: in create, update and delete the cloud accepts at most one mutating
\* call of the handler; the calls before it were rejected with Conflict or
\* ResourceLocked, no call follows it, and without an accepted call the
\* cloud is as it was; update makes no mutating call when alias_ips has no
\* change.
C19_NoHalfApplied ==
    [][op' \in {"create", "update", "delete"} =>
          /\ Cardinality(Accepted') <= 1
          /\ \A i \in Accepted' :
                 \A j \in Mutations(calls') :
                     /\ j <= i
                     /\ j < i => calls'[j].res \in RetryableAnswers
          /\ Accepted' = {} => cloud' = cloud
          /\ (op' = "update" /\ ~given'.hasChange) => Mutations(calls') = {}
      ]_vars

C19_Witness ==
    /\ op = "delete"
    /\ answers = <<ErrorCodeLocked, "ok">>
    /\ Cardinality(Detaches) = 2
    /\ Cardinality(Accepted) = 1
    /\ diags = NilErr

\* attachServerToNetwork returned an error: retry returned one that is not
\* AlreadyAttached, or the wait for the action did
AttachFailed ==
    /\ invoker.used
    /\ \/ invoker.err # NilErr /\ ~attachIsDone(invoker.err)
       \/ FailedWaits # {}

Fetches == {i \in 1..Len(calls) :
               calls[i].api \in {"Server.GetByID", "Network.GetByID"}}

\* C20: when attachServerToNetwork returns an error, also when the cloud
\* accepted the call and only the wait failed or was cancelled, create
\* returns that error, leaves the id empty and does not read; and when
\* create ends with a non-empty id, the read after the attach found the
\* private net of the server in the network.
C20_IdAfterAttach ==
    (op = "create") =>
        /\ AttachFailed =>
               /\ diags # NilErr
               /\ diags.msg = "attach server to network"
               /\ d.id = <<>>
               /\ lookups = <<>>
               /\ Fetches = {}
        /\ d.id # <<>> =>
               /\ ~AttachFailed
               /\ Len(lookups) = 1
               /\ ~lookups[1].serverPrivateNet.nil
               /\ lookups[1].server.ID = given.d.server_id
               /\ lookups[1].serverPrivateNet.Network.ID
                      = ResolvedNetwork(given.d)

\* the cloud holds the attachment and the record has no id
C20_Witness ==
    /\ op = "create"
    /\ \E i \in Waits(calls) : calls[i].res = "cancelled"
    /\ Attached(cloud, given.d.server_id, ResolvedNetwork(given.d))
    /\ diags # NilErr
    /\ d.id = <<>>
    /\ lookups = <<>>

====
